---- MODULE Spec2Model ----
(***************************************************************************)
(* A model of the dashboard backend's update path:                         *)
(*   services/data_aggregator.py  (indicator step, stock step, run)        *)
(*   services/fred_service.py, services/world_bank_service.py (adapters)   *)
(*   api/routes.py (manual trigger and its debounce), scheduler.py         *)
(*                                                                         *)
(* Numbers: every float of the program is held as an integer count of      *)
(* hundredths (5.33 is 533); round(x, 2) is rounding to the nearest        *)
(* hundredth, ties to even.  Times are counted in half seconds.            *)
(***************************************************************************)
EXTENDS Integers, Sequences, FiniteSets, Bags, TLC

VARIABLES
    economic_indicators,  \* table economic_indicators: a bag of rows
    stock_data,           \* table stock_data: a bag of rows
    update_logs,          \* table update_logs: the sequence of entries written
    last_manual_update,   \* routes.last_manual_update: None or a time
    now,                  \* the wall clock, in half seconds
    call,                 \* the most recent invocation: its inputs and its result
    runs,                 \* number of invocations so far
    sessions              \* by thread, the run of update_all_data it is in

vars == <<economic_indicators, stock_data, update_logs, last_manual_update, now, call, runs,
          sessions>>

----------------------------------------------------------------------------
(* Bounds of the model *)

MaxRuns == 2
MaxTime == 62
MaxObs == 15
MaxClock == 64

(* Program constants *)

UPDATE_COOLDOWN_SECONDS == 30
FedWindow == 12
InflationWindow == 12
GdpWindow == 8
GlobalGdpWindow == 5
YoyLag == 12
SharesOutstandingTenths == 246
rate_limit_delay == 12
TicksPerSecond == 2

----------------------------------------------------------------------------
(* Python values *)

None == <<>>
Some(v) == <<v>>

\* a str holding the text of a number (n hundredths), e.g. "5.33"
Str(n) == [t |-> "str", ok |-> TRUE, n |-> n]
\* a str that is not the text of a number, e.g. FRED's "." for a missing value
BadStr == [t |-> "str", ok |-> FALSE, n |-> 0]
\* a float
Flt(n) == [t |-> "float", ok |-> TRUE, n |-> n]

\* outcome of an expression that may raise
Ok(v) == [exc |-> "none", v |-> v]
Raise(e) == [exc |-> e, v |-> None]

\* float(x): a float is returned as is, a numeric str is parsed, any other str
\* raises ValueError
float(x) ==
    IF x.t = "float" THEN Ok(x.n)
    ELSE IF x.ok THEN Ok(x.n)
    ELSE Raise("ValueError")

\* the text "YYYY-MM-DD" is held as <<YYYY, MM, DD>>; a date as YYYYMMDD
DaysIn(y, m) ==
    IF m \in {4, 6, 9, 11} THEN 30
    ELSE IF m = 2 THEN (IF y % 4 = 0 /\ (y % 100 # 0 \/ y % 400 = 0) THEN 29 ELSE 28)
    ELSE 31

MkDate(y, m, d) == y * 10000 + m * 100 + d

\* datetime.strptime(s, '%Y-%m-%d').date()
strptime(s) ==
    IF /\ Len(s) = 3
       /\ s[1] \in 1..9999
       /\ s[2] \in 1..12
       /\ s[3] \in 1..DaysIn(s[1], s[2])
    THEN Ok(MkDate(s[1], s[2], s[3]))
    ELSE Raise("ValueError")

\* datetime(year, 12, 31).date()
YearEnd(year) ==
    IF year \in 1..9999 THEN Ok(MkDate(year, 12, 31)) ELSE Raise("ValueError")

\* round(a / b, 0) for b # 0: nearest integer, ties to even
RoundDiv(a, b) ==
    LET n == IF b < 0 THEN 0 - a ELSE a
        d == IF b < 0 THEN 0 - b ELSE b
        q == n \div d
        r == n % d
    IN  IF 2 * r < d THEN q
        ELSE IF 2 * r > d THEN q + 1
        ELSE IF q % 2 = 0 THEN q ELSE q + 1

\* s[:n], the first n in place of the last
FirstN(s, n) == IF Len(s) <= n THEN s ELSE SubSeq(s, 1, n)

\* s[-n:]
LastN(s, n) == IF Len(s) <= n THEN s ELSE SubSeq(s, Len(s) - n + 1, Len(s))

\* d[k] = v on a dict
Put(d, k, v) == (k :> v) @@ d

----------------------------------------------------------------------------
(* services/fred_service.py *)

\* an iteration that takes the observation eleven places back as the year-ago one
YoyPointElevenBack(observations, i) ==
    LET current == observations[i]
        year_ago == observations[i - YoyLag + 1]
    IN  IF "value" \notin DOMAIN current THEN [k |-> "skip"]
        ELSE IF float(current.value).exc # "none" THEN [k |-> "skip"]
        ELSE IF "value" \notin DOMAIN year_ago THEN [k |-> "skip"]
        ELSE IF float(year_ago.value).exc # "none" THEN [k |-> "skip"]
        ELSE IF float(year_ago.value).v = 0 THEN [k |-> "raise"]
        ELSE IF "date" \notin DOMAIN current THEN [k |-> "skip"]
        ELSE [k |-> "point",
              p |-> [date |-> current.date,
                     value |-> Flt(RoundDiv((float(current.value).v - float(year_ago.value).v) * 10000,
                                            float(year_ago.value).v))]]

\* one iteration of the loop of calculate_cpi_yoy_change, i counted from 1:
\* "skip" (ValueError or KeyError caught), "raise" (ZeroDivisionError, which
\* the except clause does not name) or the point to append
YoyPoint(observations, i) ==
    LET current == observations[i]
        year_ago == observations[i - YoyLag]
    IN  IF "value" \notin DOMAIN current THEN [k |-> "skip"]
        ELSE IF float(current.value).exc # "none" THEN [k |-> "skip"]
        ELSE IF "value" \notin DOMAIN year_ago THEN [k |-> "skip"]
        ELSE IF float(year_ago.value).exc # "none" THEN [k |-> "skip"]
        ELSE IF float(year_ago.value).v = 0 THEN [k |-> "raise"]
        ELSE IF "date" \notin DOMAIN current THEN [k |-> "skip"]
        ELSE [k |-> "point",
              p |-> [date |-> current.date,
                     value |-> Flt(RoundDiv((float(current.value).v - float(year_ago.value).v) * 10000,
                                            float(year_ago.value).v))]]

\* the loop over i in range(12, len(observations)): the first iteration that
\* raises ends the call, else the points appended, in order
YoyLoop(observations) ==
    LET pts == [j \in 1..(Len(observations) - YoyLag) |-> YoyPoint(observations, j + YoyLag)]
        IsPoint(pt) == pt.k = "point"
        kept == SelectSeq(pts, IsPoint)
    IN  IF \E j \in DOMAIN pts : pts[j].k = "raise" THEN Raise("ZeroDivisionError")
        ELSE Ok([j \in DOMAIN kept |-> kept[j].p])

calculate_cpi_yoy_change(observations) ==
    IF Len(observations) < YoyLag THEN Ok(<<>>)
    ELSE YoyLoop(observations)

----------------------------------------------------------------------------
(* services/world_bank_service.py *)

\* int(s) of a str
int(x) == IF x.ok THEN Ok(x.n) ELSE Raise("ValueError")

\* sorted(result, key=year): a stable insertion sort
RECURSIVE InsertAsc(_, _)
InsertAsc(x, s) ==
    IF s = <<>> THEN <<x>>
    ELSE IF Head(s).year >= x.year THEN <<x>> \o s
    ELSE <<Head(s)>> \o InsertAsc(x, Tail(s))

RECURSIVE SortAsc(_)
SortAsc(s) == IF s = <<>> THEN <<>> ELSE InsertAsc(Head(s), SortAsc(Tail(s)))

\* sorted(global_gdp, key=year, reverse=True): stable as well
RECURSIVE InsertDesc(_, _)
InsertDesc(x, s) ==
    IF s = <<>> THEN <<x>>
    ELSE IF Head(s).year <= x.year THEN <<x>> \o s
    ELSE <<Head(s)>> \o InsertDesc(x, Tail(s))

RECURSIVE SortDesc(_)
SortDesc(s) == IF s = <<>> THEN <<>> ELSE InsertDesc(Head(s), SortDesc(Tail(s)))

\* the loop of get_global_gdp_growth over the response's items; an item's
\* value is None, a float in thousandths, or a str
RECURSIVE WbTransform(_, _)
WbTransform(data, result) ==
    IF data = <<>> THEN Ok(result)
    ELSE LET item == Head(data)
         IN  IF "value" \notin DOMAIN item \/ item.value = None
             THEN WbTransform(Tail(data), result)
             ELSE IF int(item.date).exc # "none" THEN Raise("ValueError")
             ELSE IF item.value[1].t # "float" THEN Raise("TypeError")
             ELSE WbTransform(Tail(data),
                     Append(result, [year |-> int(item.date).v,
                                     value |-> Flt(RoundDiv(item.value[1].n, 10))]))

\* data is None when the request failed
get_global_gdp_growth(data) ==
    IF data = None \/ data = Some(<<>>) THEN Ok(<<>>)
    ELSE LET r == WbTransform(data[1], <<>>)
         IN  IF r.exc # "none" THEN r ELSE Ok(SortAsc(r.v))

\* the same transformation, for country USA
get_us_gdp_growth(data) ==
    IF data = None \/ data = Some(<<>>) THEN Ok(<<>>)
    ELSE LET r == WbTransform(data[1], <<>>)
         IN  IF r.exc # "none" THEN r ELSE Ok(SortAsc(r.v))

----------------------------------------------------------------------------
(* The store: database/models.py, database/database.py.  A table is a bag  *)
(* of rows.  A session holds the rows it has loaded and changed (dirty:    *)
(* stored row -> row in memory) and the bag of rows added and not yet      *)
(* flushed (new); SessionLocal has autoflush=False, so a query never sees  *)
(* new.                                                                    *)

IndicatorFields == {"global_gdp_growth", "us_gdp_growth", "federal_funds_rate", "inflation_rate"}

NoSession == [dirty |-> <<>>, new |-> EmptyBag]

\* the bag of the rows in memory: each as often as stored rows map to it
BagOfImage(f) ==
    [v \in {f[x] : x \in DOMAIN f} |-> Cardinality({x \in DOMAIN f : f[x] = v})]

\* Column(Date, unique=True): no two rows of the table carry the same date
UniqueDates(table) ==
    BagCardinality(table) = Cardinality({r.date : r \in BagToSet(table)})

\* db.query(Model).filter(Model.date == date).first(): None, or the stored row
QueryFirst(table, date) ==
    IF \E r \in BagToSet(table) : r.date = date
    THEN Some(CHOOSE r \in BagToSet(table) : r.date = date)
    ELSE None

\* the object the session holds for a stored row
Loaded(sess, row) == IF row \in DOMAIN sess.dirty THEN sess.dirty[row] ELSE row

\* the table once the session's changes are written
Flushed(table, sess) ==
    (table (-) SetToBag(DOMAIN sess.dirty))
        (+) BagOfImage(sess.dirty)
        (+) sess.new

\* the flush of a commit: refused as a whole when the rows to write break the
\* unique constraint
Written(flushed) ==
    IF UniqueDates(flushed) THEN Ok(flushed) ELSE Raise("IntegrityError")

\* a commit on a table whose date column is not unique
CommitUnconstrained(table, sess, fault) ==
    IF fault # "none" THEN Raise("OperationalError")
    ELSE Ok(Flushed(table, sess))

\* db.commit(): fails when the database does, or when a row written breaks
\* the unique constraint on date
Commit(table, sess, fault) ==
    IF fault # "none" THEN Raise("OperationalError")
    ELSE Written(Flushed(table, sess))

\* a record created with its date only
NewIndicatorBare(date, values, t) ==
    [k \in IndicatorFields \cup {"date", "updated_at"} |->
        IF k = "date" THEN date
        ELSE IF k = "updated_at" THEN t
        ELSE None]

\* EconomicIndicator(date=date, **values); updated_at defaults to utcnow
NewIndicator(date, values, t) ==
    [k \in IndicatorFields \cup {"date", "updated_at"} |->
        IF k = "date" THEN date
        ELSE IF k = "updated_at" THEN t
        ELSE IF k \in DOMAIN values THEN Some(values[k])
        ELSE None]

\* an update that replaces the record: fields not named are cleared
SetAttrsReplacing(existing, values, t) ==
    [k \in DOMAIN existing |->
        IF k \in DOMAIN values THEN Some(values[k])
        ELSE IF k = "updated_at" THEN t
        ELSE IF k = "date" THEN existing[k]
        ELSE None]

\* for key, value in values.items(): setattr(existing, key, value);
\* existing.updated_at = utcnow()
SetAttrs(existing, values, t) ==
    [k \in DOMAIN existing |->
        IF k \in DOMAIN values THEN Some(values[k])
        ELSE IF k = "updated_at" THEN t
        ELSE existing[k]]

----------------------------------------------------------------------------
(* services/data_aggregator.py: update_economic_indicators *)

\* data_by_date[date][field] = value, creating data_by_date[date] when absent
SetField(data_by_date, date, field, value) ==
    Put(data_by_date, date,
        Put(IF date \in DOMAIN data_by_date THEN data_by_date[date] ELSE <<>>, field, value))

\* whether the body of the loops over FRED observations reaches its
\* assignment: strptime and float raise no ValueError and no key is missing
\* (KeyError); any other iteration leaves data_by_date as it is
Parses(obs) ==
    /\ "date" \in DOMAIN obs
    /\ strptime(obs.date).exc = "none"
    /\ "value" \in DOMAIN obs
    /\ float(obs.value).exc = "none"

\* the loops at lines 53-86, run to their end: each date of an iteration
\* that reaches the assignment holds, under field, the value of the last such
\* iteration for that date; every other entry is as before
ProcessSeries(data_by_date, observations, field) ==
    LET kept == {i \in DOMAIN observations : Parses(observations[i])}
        DateOf(i) == strptime(observations[i].date).v
        dates == {DateOf(i) : i \in kept}
        last(date) == CHOOSE i \in kept :
                        /\ DateOf(i) = date
                        /\ \A j \in kept : DateOf(j) = date => j <= i
    IN  [date \in (DOMAIN data_by_date) \cup dates |->
            IF date \in dates
            THEN Put(IF date \in DOMAIN data_by_date THEN data_by_date[date] ELSE <<>>,
                     field, float(observations[last(date)].value).v)
            ELSE data_by_date[date]] @@ <<>>

\* one iteration of the loop over the annual points
ProcessAnnual(data_by_date, item) ==
    IF YearEnd(item.year).exc # "none" THEN data_by_date
    ELSE IF float(item.value).exc # "none" THEN data_by_date
    ELSE SetField(data_by_date, YearEnd(item.year).v, "global_gdp_growth", float(item.value).v)

RECURSIVE ProcessAnnualSeries(_, _)
ProcessAnnualSeries(data_by_date, items) ==
    IF items = <<>> THEN data_by_date
    ELSE ProcessAnnualSeries(ProcessAnnual(data_by_date, Head(items)), Tail(items))

\* the value of the first point of the points sorted by year ascending
OldestGdpValue(global_gdp) ==
    IF global_gdp = <<>> THEN Ok(None)
    ELSE Ok(Some(float(SortAsc(global_gdp)[1].value).v))

\* latest_gdp_value: None, or float() of the first point of the points sorted
\* by year descending; that float() stands outside the loops' try blocks
LatestGdpValue(global_gdp) ==
    IF global_gdp = <<>> THEN Ok(None)
    ELSE LET f == float(SortDesc(global_gdp)[1].value)
         IN  IF f.exc # "none" THEN f ELSE Ok(Some(f.v))

\* a fill placed after the first loop: it reaches only the dates of the
\* federal-funds observations
ForwardFillRates(data_by_date, latest_gdp_value) ==
    IF latest_gdp_value = None THEN data_by_date
    ELSE [date \in DOMAIN data_by_date |->
            IF "global_gdp_growth" \in DOMAIN data_by_date[date]
               \/ "federal_funds_rate" \notin DOMAIN data_by_date[date]
            THEN data_by_date[date]
            ELSE Put(data_by_date[date], "global_gdp_growth", latest_gdp_value[1])]

\* forward fill: every date without the field receives latest_gdp_value
ForwardFill(data_by_date, latest_gdp_value) ==
    IF latest_gdp_value = None THEN data_by_date
    ELSE [date \in DOMAIN data_by_date |->
            IF "global_gdp_growth" \in DOMAIN data_by_date[date]
            THEN data_by_date[date]
            ELSE Put(data_by_date[date], "global_gdp_growth", latest_gdp_value[1])]

\* lines 50-113: the accumulator built from the fetched series
Reconcile(fed_rates, inflation_data, gdp_data, global_gdp, latest_gdp_value) ==
    LET d1 == ProcessSeries(<<>>, LastN(fed_rates, FedWindow), "federal_funds_rate")
        d2 == ProcessSeries(d1, LastN(inflation_data, InflationWindow), "inflation_rate")
        d3 == ProcessSeries(d2, LastN(gdp_data, GdpWindow), "us_gdp_growth")
        d4 == ProcessAnnualSeries(d3, LastN(global_gdp, GlobalGdpWindow))
    IN  ForwardFill(d4, latest_gdp_value)

\* lines 116-134, run over every date of data_by_date: the record looked up
\* is changed in place, or a new one is added
UpsertIndicators(table, data_by_date, t) ==
    LET found == {date \in DOMAIN data_by_date : QueryFirst(table, date) # None}
        Existing(date) == QueryFirst(table, date)[1]
    IN  [dirty |-> [row \in {Existing(date) : date \in found} |->
                      SetAttrs(row, data_by_date[row.date], t)],
         new |-> SetToBag({NewIndicator(date, data_by_date[date], t) :
                             date \in (DOMAIN data_by_date) \ found})]

\* what the try block hands to the rest of the method: the exception that
\* left it ("none" when it ran to its end), the table, the count returned and
\* the accumulator as far as it was built
TryResult(exc, table, count, data_by_date) ==
    [exc |-> exc, table |-> table, count |-> count, data_by_date |-> data_by_date]

\* line 136, db.commit(), and line 138
Committed(table, data_by_date, done) ==
    IF done.exc # "none" THEN TryResult(done.exc, table, 0, data_by_date)
    ELSE TryResult("none", done.v, Cardinality(DOMAIN data_by_date), data_by_date)

\* lines 116-136: the upsert of every date and the commit
Persist(table, fault, t, data_by_date) ==
    Committed(table, data_by_date,
              Commit(table, UpsertIndicators(table, data_by_date, t), fault))

\* lines 50-136 once latest_gdp_value is computed (lines 90-95, hoisted: it
\* reads global_gdp only)
Accumulate(table, fault, t, fed_rates, inflation_data, gdp_data, global_gdp, latest) ==
    IF latest.exc # "none" THEN TryResult(latest.exc, table, 0, <<>>)
    ELSE Persist(table, fault, t,
                 Reconcile(fed_rates, inflation_data, gdp_data, global_gdp, latest.v))

\* lines 37-136 once the five fetches have returned or raised
Fetches(table, fault, t, fed_rates, inflation_data, gdp_data, global_gdp, us_gdp) ==
    IF inflation_data.exc # "none" THEN TryResult(inflation_data.exc, table, 0, <<>>)
    ELSE IF global_gdp.exc # "none" THEN TryResult(global_gdp.exc, table, 0, <<>>)
    ELSE IF us_gdp.exc # "none" THEN TryResult(us_gdp.exc, table, 0, <<>>)
    ELSE Accumulate(table, fault, t, fed_rates, inflation_data.v, gdp_data, global_gdp.v,
                    LatestGdpValue(global_gdp.v))

\* the try block of update_economic_indicators, from the fetches to the commit
IndicatorBody(table, fetch, fault, t) ==
    Fetches(table, fault, t, fetch.fed_rates, calculate_cpi_yoy_change(fetch.cpi_data),
            fetch.gdp_data, get_global_gdp_growth(fetch.wb_global),
            get_us_gdp_growth(fetch.wb_us))

\* lines 138-143: the dict returned; the handler's db.rollback() raises in
\* turn when the database is down, and that exception leaves the method
IndicatorOutcome(table, fault, body) ==
    IF body.exc = "none"
    THEN [table |-> body.table, raised |-> "none",
          ret |-> Some([status |-> "success", count |-> body.count]),
          data_by_date |-> body.data_by_date]
    ELSE IF fault = "db_down"
    THEN [table |-> table, raised |-> "OperationalError", ret |-> None,
          data_by_date |-> body.data_by_date]
    ELSE [table |-> table, raised |-> "none",
          ret |-> Some([status |-> "error", message |-> body.exc]),
          data_by_date |-> body.data_by_date]

\* update_economic_indicators(db): the table afterwards, the dict returned
\* (None when an exception leaves the method) and the accumulator of the run
update_economic_indicators(table, fetch, fault, t) ==
    IndicatorOutcome(table, fault, IndicatorBody(table, fetch, fault, t))

----------------------------------------------------------------------------
(* services/data_aggregator.py: update_stock_data *)

\* round(item['close'] * shares_outstanding, 2), shares_outstanding = 24.6
MarketCap(close) == RoundDiv(close * SharesOutstandingTenths, 10)

\* StockData(date=..., open_price=item['open'], ...): every key is read
\* before the record exists
NewStock(date, item, t) ==
    [date |-> date, open_price |-> item.open, close_price |-> item.close,
     high_price |-> item.high, low_price |-> item.low, volume |-> item.volume,
     market_cap |-> MarketCap(item.close), updated_at |-> t]

\* an update that leaves market_cap as it was stored
AssignStockStaleCap(existing, item, t) ==
    LET a1 == [existing EXCEPT !.open_price = item.open]
        a2 == [a1 EXCEPT !.close_price = item.close]
        a3 == [a2 EXCEPT !.high_price = item.high]
        a4 == [a3 EXCEPT !.low_price = item.low]
        a5 == [a4 EXCEPT !.volume = item.volume]
        a7 == [a5 EXCEPT !.updated_at = t]
    IN  IF "open" \notin DOMAIN item THEN [row |-> existing, done |-> FALSE]
        ELSE IF "high" \notin DOMAIN item THEN [row |-> a2, done |-> FALSE]
        ELSE IF "low" \notin DOMAIN item THEN [row |-> a3, done |-> FALSE]
        ELSE IF "volume" \notin DOMAIN item THEN [row |-> a4, done |-> FALSE]
        ELSE [row |-> a7, done |-> TRUE]

\* lines 171-177: the assignments to the existing record, in order, up to the
\* first key the item lacks (KeyError); done tells whether all were made
AssignStock(existing, item, t) ==
    LET a1 == [existing EXCEPT !.open_price = item.open]
        a2 == [a1 EXCEPT !.close_price = item.close]
        a3 == [a2 EXCEPT !.high_price = item.high]
        a4 == [a3 EXCEPT !.low_price = item.low]
        a5 == [a4 EXCEPT !.volume = item.volume]
        a7 == [a5 EXCEPT !.market_cap = MarketCap(item.close), !.updated_at = t]
    IN  IF "open" \notin DOMAIN item THEN [row |-> existing, done |-> FALSE]
        ELSE IF "high" \notin DOMAIN item THEN [row |-> a2, done |-> FALSE]
        ELSE IF "low" \notin DOMAIN item THEN [row |-> a3, done |-> FALSE]
        ELSE IF "volume" \notin DOMAIN item THEN [row |-> a4, done |-> FALSE]
        ELSE [row |-> a7, done |-> TRUE]

\* one iteration of the loop over stock_data: the session afterwards and
\* whether updates_count was incremented
ProcessStockItem(table, sess, item, t) ==
    LET skipped == [sess |-> sess, counted |-> FALSE]
    IN  IF "date" \notin DOMAIN item THEN skipped
        ELSE IF strptime(item.date).exc # "none" THEN skipped
        ELSE IF "close" \notin DOMAIN item THEN skipped
        ELSE LET date == strptime(item.date).v
                 existing == QueryFirst(table, date)
             IN  IF existing # None
                 THEN LET a == AssignStock(Loaded(sess, existing[1]), item, t)
                      IN  [sess |-> [sess EXCEPT !.dirty = Put(sess.dirty, existing[1], a.row)],
                           counted |-> a.done]
                 ELSE IF {"open", "high", "low", "volume"} \subseteq DOMAIN item
                      THEN [sess |-> [sess EXCEPT !.new = sess.new (+) SetToBag({NewStock(date, item, t)})],
                            counted |-> TRUE]
                      ELSE skipped

RECURSIVE ProcessStock(_, _, _, _, _)
ProcessStock(table, sess, items, count, t) ==
    IF items = <<>> THEN [sess |-> sess, count |-> count]
    ELSE LET r == ProcessStockItem(table, sess, Head(items), t)
         IN  ProcessStock(table, r.sess, Tail(items),
                          IF r.counted THEN count + 1 ELSE count, t)

\* lines 196-203: the commit, the dict returned and the exception handler
\* a handler without db.rollback(): what the session staged reaches the table
\* with the next commit
StockOutcomeKept(table, fault, loop, done) ==
    IF done.exc = "none"
    THEN [table |-> done.v, raised |-> "none",
          ret |-> Some([status |-> "success", count |-> loop.count])]
    ELSE IF fault = "db_down"
    THEN [table |-> table, raised |-> "OperationalError", ret |-> None]
    ELSE [table |-> Flushed(table, loop.sess), raised |-> "none",
          ret |-> Some([status |-> "error", message |-> done.exc])]

StockOutcome(table, fault, loop, done) ==
    IF done.exc = "none"
    THEN [table |-> done.v, raised |-> "none",
          ret |-> Some([status |-> "success", count |-> loop.count])]
    ELSE IF fault = "db_down"
    THEN [table |-> table, raised |-> "OperationalError", ret |-> None]
    ELSE [table |-> table, raised |-> "none",
          ret |-> Some([status |-> "error", message |-> done.exc])]

StockCommit(table, fault, loop) ==
    StockOutcome(table, fault, loop, Commit(table, loop.sess, fault))

\* update_stock_data(db), as update_economic_indicators above
update_stock_data(table, items, fault, t) ==
    IF items = <<>>
    THEN [table |-> table, raised |-> "none",
          ret |-> Some([status |-> "error", message |-> "No stock data available from Alpha Vantage"])]
    ELSE StockCommit(table, fault, ProcessStock(table, NoSession, items, 0, t))

----------------------------------------------------------------------------
(* services/data_aggregator.py: update_all_data *)

\* the values of the results dict, with their Python types
PyNone == [t |-> "NoneType"]
PyDict(d) == [t |-> "dict", d |-> d]
PyList(l) == [t |-> "list", l |-> l]

StepResult(step) == IF step.ret = None THEN PyNone ELSE PyDict(step.ret[1])

\* any(r and r.get('status') == 'success'
\*     for r in results.values() if isinstance(r, dict))
AnySuccess(results) ==
    \E k \in DOMAIN results :
        /\ results[k].t = "dict"
        /\ results[k].d.status = "success"

\* the rule with its two failure statuses exchanged
OverallStatusExchanged(results) ==
    IF results["errors"].l # <<>>
    THEN (IF AnySuccess(results) THEN "failed" ELSE "partial")
    ELSE "success"

\* lines 241-245
OverallStatus(results) ==
    IF results["errors"].l # <<>>
    THEN (IF AnySuccess(results) THEN "partial" ELSE "failed")
    ELSE "success"

\* lines 227-239: the results dict once both steps have returned or raised
Results(ind, stock) ==
    [economic_indicators |-> StepResult(ind),
     stock_data |-> StepResult(stock),
     errors |-> PyList((IF ind.raised # "none" THEN <<"Economic indicators">> ELSE <<>>)
                       \o (IF stock.raised # "none" THEN <<"Stock data">> ELSE <<>>))]

\* an entry that keeps the default of the parameter update_type
UpdateLogDefault(t, update_type, status, results) ==
    [timestamp |-> t, update_type |-> "automatic", status |-> status,
     sources_updated |-> results,
     errors |-> IF results["errors"].l # <<>> THEN Some(results["errors"].l) ELSE None]

\* lines 250-258: the UpdateLog entry
UpdateLog(t, update_type, status, results) ==
    [timestamp |-> t, update_type |-> update_type, status |-> status,
     sources_updated |-> results,
     errors |-> IF results["errors"].l # <<>> THEN Some(results["errors"].l) ELSE None]

\* a run without the try blocks of lines 227-239: an exception of a step
\* leaves update_all_data
FinishPropagating(db, fault, update_type, t, ind, stock, results, status) ==
    [db |-> [economic_indicators |-> ind.table,
             stock_data |-> stock.table,
             update_logs |-> IF fault.log = "none" /\ ind.raised = "none" /\ stock.raised = "none"
                             THEN Append(db.update_logs, UpdateLog(t, update_type, status, results))
                             ELSE db.update_logs],
     raised |-> IF ind.raised # "none" THEN ind.raised
                ELSE IF stock.raised # "none" THEN stock.raised
                ELSE IF fault.log = "none" THEN "none" ELSE "OperationalError",
     ret |-> IF fault.log = "none" /\ ind.raised = "none" /\ stock.raised = "none"
             THEN Some([status |-> status, results |-> results]) ELSE None,
     status |-> status,
     results |-> results,
     data_by_date |-> ind.data_by_date]

\* lines 241-269: the entry is added and committed, and the dict returned
\* (None when the commit of the entry raises, which leaves the method)
Finish(db, fault, update_type, t, ind, stock, results, status) ==
    [db |-> [economic_indicators |-> ind.table,
             stock_data |-> stock.table,
             update_logs |-> IF fault.log = "none"
                             THEN Append(db.update_logs, UpdateLog(t, update_type, status, results))
                             ELSE db.update_logs],
     raised |-> IF fault.log = "none" THEN "none" ELSE "OperationalError",
     ret |-> IF fault.log = "none" THEN Some([status |-> status, results |-> results]) ELSE None,
     status |-> status,
     results |-> results,
     data_by_date |-> ind.data_by_date]

Steps(db, fault, update_type, t, ind, stock, results) ==
    Finish(db, fault, update_type, t, ind, stock, results, OverallStatus(results))

\* two steps in one transaction: the rollback of the stock step takes the
\* indicator records with it
StepsDoneOneTransaction(db, fault, update_type, t, ind, stock) ==
    Steps(db, fault, update_type, t,
          IF stock.raised # "none" \/ stock.ret[1].status = "error"
          THEN [ind EXCEPT !.table = db.economic_indicators] ELSE ind,
          stock, Results(ind, stock))

StepsDone(db, fault, update_type, t, ind, stock) ==
    Steps(db, fault, update_type, t, ind, stock, Results(ind, stock))

\* update_all_data(db, update_type) on a database holding the two tables and
\* the log
update_all_data(db, fetch, fault, update_type, t) ==
    StepsDone(db, fault, update_type, t,
              update_economic_indicators(db.economic_indicators, fetch.indicators,
                                         fault.indicators, t),
              update_stock_data(db.stock_data, fetch.stock, fault.stock, t))

----------------------------------------------------------------------------
(* api/routes.py: calculate_trend *)

\* a test of truthiness in place of the tests for None: a current of 0.0
\* counts as absent
calculate_trendFalsy(current, previous) ==
    IF current = None \/ previous = None \/ current = Some(0)
    THEN [trend |-> None, trend_direction |-> "neutral"]
    ELSE IF previous[1] = 0
    THEN [trend |-> None, trend_direction |-> "neutral"]
    ELSE [trend |-> Some(Flt(RoundDiv((current[1] - previous[1]) * 10000, previous[1]))),
          trend_direction |-> IF (current[1] - previous[1]) * previous[1] > 0 THEN "up"
                              ELSE IF (current[1] - previous[1]) * previous[1] < 0 THEN "down"
                              ELSE "neutral"]

\* current and previous are None or a float, in hundredths; trend_pct is
\* ((current - previous) / previous) * 100, the direction is taken from its
\* sign, the trend is round(trend_pct, 2)
calculate_trend(current, previous) ==
    IF current = None \/ previous = None
    THEN [trend |-> None, trend_direction |-> "neutral"]
    ELSE IF previous[1] = 0
    THEN [trend |-> None, trend_direction |-> "neutral"]
    ELSE [trend |-> Some(Flt(RoundDiv((current[1] - previous[1]) * 10000, previous[1]))),
          trend_direction |-> IF (current[1] - previous[1]) * previous[1] > 0 THEN "up"
                              ELSE IF (current[1] - previous[1]) * previous[1] < 0 THEN "down"
                              ELSE "neutral"]

----------------------------------------------------------------------------
(* api/routes.py: trigger_manual_update *)

\* a check that still rejects when exactly the cooldown has elapsed
CooldownInclusive(last, force, t) ==
    IF last # None /\ ~force /\ t - last[1] <= UPDATE_COOLDOWN_SECONDS * TicksPerSecond
    THEN Some((UPDATE_COOLDOWN_SECONDS * TicksPerSecond - (t - last[1])) \div TicksPerSecond)
    ELSE None

\* lines 251-257: None when the trigger passes the cooldown check, else the
\* number of seconds of the 429 response's detail
Cooldown(last, force, t) ==
    IF last # None /\ ~force /\ t - last[1] < UPDATE_COOLDOWN_SECONDS * TicksPerSecond
    THEN Some((UPDATE_COOLDOWN_SECONDS * TicksPerSecond - (t - last[1])) \div TicksPerSecond)
    ELSE None

----------------------------------------------------------------------------
(* What the providers return.  FRED observations are dicts {date, value}   *)
(* of strs; World Bank items are dicts {date, value} with the year as a    *)
(* str and the value a float (in thousandths) or None; stock rows are      *)
(* dicts {date, open, high, low, close, volume}.                           *)

Obs(date, value) == [date |-> date, value |-> value]

\* the first day of the k-th month counted from January 2023
Month(k) == <<2023 + (k \div 12), (k % 12) + 1, 1>>

\* the first day of the k-th quarter counted from Q1 2022
Quarter(k) == <<2022 + (k \div 4), 3 * (k % 4) + 1, 1>>

\* FEDFUNDS: nothing; thirteen months; a short batch with a missing value
\* ("."), an entry without date and one with an impossible date; two
\* entries dated on 31 December
FedSeries ==
    { <<>>,
      [i \in 1..13 |-> Obs(Month(i - 1), Str(500 + i))],
      << Obs(Month(10), BadStr), Obs(Month(11), Str(533)),
         [value |-> Str(1)], Obs(<<2024, 13, 1>>, Str(2)), [date |-> Month(12)],
         Obs(Month(12), Str(525)) >>,
      << Obs(<<2018, 12, 31>>, Str(240)), Obs(<<2023, 12, 31>>, Str(540)) >> }

\* CPIAUCSL: nothing; thirteen months, the level rising from 100.00 to
\* 110.00; fourteen months with one missing value; fourteen months with a
\* zero level twelve months back
CpiSeries ==
    { <<>>,
      [i \in 1..13 |-> Obs(Month(i - 1), Str(IF i = 13 THEN 11000 ELSE 10000))],
      [i \in 1..14 |-> Obs(Month(i - 1), IF i = 1 THEN BadStr ELSE Str(30000 + 77 * i))],
      [i \in 1..14 |-> Obs(Month(i - 1), Str(IF i = 2 THEN 0 ELSE 30000 + 77 * i))] }

\* A191RL1Q225SBEA: nothing; nine quarters, one value missing
GdpSeries ==
    { <<>>,
      [i \in 1..9 |-> Obs(Quarter(i - 1), IF i = 5 THEN BadStr ELSE Str(200 + 10 * i))] }

WbItem(year, value) == [date |-> Str(year), value |-> value]

\* NY.GDP.MKTP.KD.ZG for WLD: the request failed; the years 2022 and 2023;
\* six years, newest first, one without value yet; a value that is a str;
\* a date that is no year
WbGlobal ==
    { None,
      Some(<< WbItem(2022, Some(Flt(2500))), WbItem(2023, Some(Flt(3000))) >>),
      Some(<< WbItem(2024, None), WbItem(2023, Some(Flt(2718))), WbItem(2022, Some(Flt(3094))),
              WbItem(2021, Some(Flt(6256))), WbItem(2020, Some(Flt(0 - 2936))),
              WbItem(2019, Some(Flt(2646))), WbItem(2018, Some(Flt(3284))) >>),
      Some(<< WbItem(2022, Some(Flt(2500))), WbItem(2023, Some(BadStr)) >>),
      Some(<< [date |-> BadStr, value |-> Some(Flt(2500))] >>) }

WbUs ==
    { None,
      Some(<< WbItem(2023, Some(Flt(2543))) >>),
      Some(<< WbItem(2023, Some(BadStr)) >>) }

Fetched(fed, cpi, gdp, wbg, wbu) ==
    [fed_rates |-> fed, cpi_data |-> cpi, gdp_data |-> gdp, wb_global |-> wbg, wb_us |-> wbu]

\* the answers used beside other series
ThirteenMonths == [i \in 1..13 |-> Obs(Month(i - 1), Str(500 + i))]
\* CPIAUCSL over twenty-five months: thirteen yearly changes
TwentyFiveMonths == [i \in 1..25 |-> Obs(Month(i - 1), Str(30000 + 77 * i + (i % 3)))]
TwoYears == Some(<< WbItem(2022, Some(Flt(2500))), WbItem(2023, Some(Flt(3000))) >>)

\* the fetches of one indicator step: every FEDFUNDS batch with the World
\* Bank answers that parse, the thirteen months with those that do not,
\* every CPI batch with every GDP batch, and every GDP batch with every
\* answer for the USA
IndicatorFetches ==
    { Fetched(f, <<>>, <<>>, w, None) :
        f \in FedSeries, w \in {x \in WbGlobal : get_global_gdp_growth(x).exc = "none"} }
    \cup { Fetched(ThirteenMonths, <<>>, <<>>, w, None) : w \in WbGlobal }
    \cup { Fetched(<<>>, c, g, None, None) : c \in CpiSeries, g \in GdpSeries }
    \cup { Fetched(ThirteenMonths, [i \in 1..13 |-> Obs(Month(i - 1), Str(IF i = 13 THEN 11000 ELSE 10000))],
                   [i \in 1..9 |-> Obs(Quarter(i - 1), IF i = 5 THEN BadStr ELSE Str(200 + 10 * i))],
                   TwoYears, None) }
    \cup { Fetched(<<>>, <<>>, g, None, u) : g \in GdpSeries, u \in WbUs }
    \cup { Fetched(<<>>, TwentyFiveMonths, <<>>, None, None) }

\* the database during a step: healthy; its commit fails; commit and
\* rollback both fail
Faults == {"none", "commit_fails", "db_down"}

\* what one indicator step meets: every fetch on a healthy database, and the
\* fetches of the thirteen months on a failing one
IndicatorInputs ==
    { [fetch |-> f, fault |-> "none"] : f \in IndicatorFetches }
    \cup { [fetch |-> f, fault |-> x] :
             f \in {g \in IndicatorFetches : g.fed_rates = ThirteenMonths /\ g.cpi_data = <<>>},
             x \in Faults }

(* services/alphavantage_service.py: _make_request *)

\* a call of _make_request at time t, the clock in ticks, with
\* _last_request_time = last: the call sleeps until rate_limit_delay has
\* passed since last, then sends the request, which takes dur ticks;
\* _last_request_time is set once raise_for_status() has returned, and is
\* left alone when requests.get or raise_for_status raises
make_request(last, t, ok, dur) ==
    [start |-> IF t - last < rate_limit_delay * TicksPerSecond
               THEN last + rate_limit_delay * TicksPerSecond
               ELSE t,
     ok |-> ok,
     dur |-> dur,
     last_request_time |-> IF ok
                           THEN dur + (IF t - last < rate_limit_delay * TicksPerSecond
                                       THEN last + rate_limit_delay * TicksPerSecond
                                       ELSE t)
                           ELSE last]

\* how long a request takes, in ticks: answered at once, after a tick, or
\* after the timeout of 10 seconds
Durations == {0, 1, 10 * TicksPerSecond}

(* services/stock_service.py: get_historical_data *)

StockRow(date, open, high, low, close, volume) ==
    [date |-> date, open |-> open, high |-> high, low |-> low, close |-> close, volume |-> volume]

\* r without the key k
Without(r, k) == [x \in (DOMAIN r) \ {k} |-> r[x]]

Day1 == <<2024, 1, 2>>
Day2 == <<2024, 1, 3>>

\* the rows DemoStockDataGenerator builds: complete, one per day
DemoBatch ==
    << StockRow(Day1, 18900, 19150, 18800, 19020, 40), StockRow(Day2, 19020, 19300, 18950, 19110, 55) >>

\* what the Alpha Vantage service hands over: None when it is not configured
\* or raised, else its rows: none; two days; a later answer revising the
\* first day; one row per key it may lack, for both days; the same day twice
AlphaBatches ==
    { None,
      Some(<<>>),
      Some(<< StockRow(Day1, 11800, 12100, 11700, 12000, 40), StockRow(Day2, 12000, 12300, 11900, 12150, 55) >>),
      Some(<< StockRow(Day1, 11850, 12600, 11700, 12500, 41) >>),
      Some(<< Without(StockRow(Day1, 13100, 13300, 12900, 13000, 60), "high"),
              StockRow(Day2, 12000, 12300, 11900, 12345, 56),
              Without(StockRow(Day2, 13100, 13300, 12900, 13200, 61), "volume") >>),
      Some(<< Without(StockRow(Day1, 14100, 14300, 13900, 14000, 70), "date"),
              StockRow(<<2024, 2, 30>>, 14100, 14300, 13900, 14000, 70),
              Without(StockRow(Day1, 14100, 14300, 13900, 14000, 70), "close"),
              Without(StockRow(Day1, 14100, 14300, 13900, 14000, 70), "open"),
              Without(StockRow(Day2, 14100, 14300, 13900, 14000, 70), "low"),
              StockRow(Day1, 10001, 10100, 9900, 10001, 42) >>),
      Some(<< StockRow(Day1, 11800, 12100, 11700, 12000, 40), StockRow(Day1, 11800, 12100, 11700, 12050, 43) >>) }

\* lines 107-131: the service's rows when it returned any, else demo rows
get_historical_data(alpha, demo) ==
    IF alpha # None /\ alpha[1] # <<>> THEN alpha[1] ELSE demo

----------------------------------------------------------------------------
(* The threads that run update_all_data: the event loop, which serves POST  *)
(* /update, and the worker of the BackgroundScheduler, which runs the daily  *)
(* job.  Each has its own session (get_db, SessionLocal()).                  *)

Threads == {"request", "scheduler"}

NotRunning == [pc |-> "idle"]

NoRuns == [th \in Threads |-> NotRunning]

----------------------------------------------------------------------------
(* State machine *)

Init ==
    /\ economic_indicators = EmptyBag
    /\ stock_data = EmptyBag
    /\ sessions = NoRuns
    /\ update_logs = <<>>
    /\ last_manual_update = None
    /\ now = 0
    /\ call = [op |-> "none"]
    /\ runs = 0

\* every invocation takes one tick of the clock
Invoked ==
    /\ runs < MaxRuns
    /\ now < MaxTime
    /\ runs' = runs + 1
    /\ now' = now + 1
    /\ UNCHANGED sessions

\* a call of update_economic_indicators(db) on its own; the call is recorded
\* with the table it found and with whether it repeats the fetch of the call
\* before it, that call having met a healthy database
IndicatorStep ==
    /\ Invoked
    /\ \E in \in IndicatorInputs :
         \E r \in {update_economic_indicators(economic_indicators, in.fetch, in.fault, now)} :
             /\ economic_indicators' = r.table
             /\ call' = [op |-> "update_economic_indicators", fetch |-> in.fetch, fault |-> in.fault,
                         ret |-> r.ret, raised |-> r.raised, data_by_date |-> r.data_by_date,
                         before |-> economic_indicators,
                         repeat |-> /\ call.op = "update_economic_indicators"
                                    /\ call.fetch = in.fetch
                                    /\ call.fault = "none"]
    /\ UNCHANGED <<stock_data, update_logs, last_manual_update>>

\* what line 149 may be handed: the rows of the stock service as it stands,
\* and no rows at all, the answer lines 151-153 provide for
StockAnswers == {get_historical_data(alpha, DemoBatch) : alpha \in AlphaBatches} \cup {<<>>}

\* a call of update_stock_data(db) on its own, recorded with the table it found
StockStep ==
    /\ Invoked
    /\ \E items \in StockAnswers, fault \in Faults :
         \E r \in {update_stock_data(stock_data, items, fault, now)} :
             /\ stock_data' = r.table
             /\ call' = [op |-> "update_stock_data", items |-> items, fault |-> fault,
                         ret |-> r.ret, raised |-> r.raised, before |-> stock_data]
    /\ UNCHANGED <<economic_indicators, update_logs, last_manual_update>>

\* what one run of update_all_data meets: the providers' answers and the
\* database's health during the indicator step, the stock step and the
\* commit of the log entry
RunFetches ==
    { [indicators |-> Fetched(<< Obs(Month(11), Str(533)), Obs(Month(11), Str(550)) >>, <<>>, <<>>,
                              Some(<< WbItem(2022, Some(Flt(2500))), WbItem(2023, Some(Flt(3000))) >>),
                              None),
       stock |-> Some(<< StockRow(Day1, 11800, 12100, 11700, 12000, 40),
                         StockRow(Day2, 12000, 12300, 11900, 12150, 55) >>)],
      [indicators |-> Fetched(<< Obs(Month(11), Str(525)) >>, <<>>, <<>>, None, None),
       stock |-> Some(<< StockRow(Day1, 11800, 12100, 11700, 12000, 40),
                         StockRow(Day1, 11800, 12100, 11700, 12050, 43) >>)],
      [indicators |-> Fetched(<< Obs(Month(11), Str(533)) >>, <<>>, <<>>,
                              Some(<< WbItem(2022, Some(Flt(2500))), WbItem(2023, Some(BadStr)) >>),
                              None),
       stock |-> None] }

RunFaults ==
    { [indicators |-> "none", stock |-> "none", log |-> "none"],
      [indicators |-> "commit_fails", stock |-> "commit_fails", log |-> "none"],
      [indicators |-> "db_down", stock |-> "none", log |-> "none"],
      [indicators |-> "db_down", stock |-> "commit_fails", log |-> "none"],
      [indicators |-> "db_down", stock |-> "db_down", log |-> "db_down"] }

\* every provider answers nothing and the database is healthy
QuietFetch == [indicators |-> Fetched(<<>>, <<>>, <<>>, None, None), stock |-> None]
QuietFault == [indicators |-> "none", stock |-> "none", log |-> "none"]

\* the database a run works on
Db == [economic_indicators |-> economic_indicators, stock_data |-> stock_data,
       update_logs |-> update_logs]

\* the run's effect on the three tables
Stored(r) ==
    /\ economic_indicators' = r.db.economic_indicators
    /\ stock_data' = r.db.stock_data
    /\ update_logs' = r.db.update_logs

\* a rejection that is entered in the update log
RejectedLogged(force, hint) ==
    /\ call' = [op |-> "trigger_manual_update", force |-> force, at |-> now,
                http |-> 429, wait |-> hint]
    /\ update_logs' = Append(update_logs, [timestamp |-> now, update_type |-> "manual",
                                           status |-> "rejected"])
    /\ UNCHANGED <<economic_indicators, stock_data, last_manual_update, now, runs, sessions>>

\* POST /update, lines 251-257: the request is answered with 429
Rejected(force, hint) ==
    /\ call' = [op |-> "trigger_manual_update", force |-> force, at |-> now,
                http |-> 429, wait |-> hint]
    /\ UNCHANGED <<economic_indicators, stock_data, update_logs, last_manual_update, now, runs, sessions>>

\* a handler that sets the timestamp once update_all_data has returned
AcceptedAfterSuccess(force, fetch, fault, r) ==
    /\ Invoked
    /\ last_manual_update' = IF r.raised = "none" THEN Some(now) ELSE last_manual_update
    /\ Stored(r)
    /\ call' = [op |-> "trigger_manual_update", force |-> force, at |-> now,
                http |-> IF r.raised = "none" THEN 200 ELSE 500,
                fetch |-> fetch, fault |-> fault, update_type |-> "manual",
                status |-> r.status, results |-> r.results, raised |-> r.raised,
                data_by_date |-> r.data_by_date]

\* POST /update, lines 259-276: the timestamp is set and the update runs; an
\* exception leaving update_all_data is answered with 500
Accepted(force, fetch, fault, r) ==
    /\ Invoked
    /\ last_manual_update' = Some(now)
    /\ Stored(r)
    /\ call' = [op |-> "trigger_manual_update", force |-> force, at |-> now,
                http |-> IF r.raised = "none" THEN 200 ELSE 500,
                fetch |-> fetch, fault |-> fault, update_type |-> "manual",
                status |-> r.status, results |-> r.results, raised |-> r.raised,
                data_by_date |-> r.data_by_date]

trigger_manual_update(force, fetch, fault) ==
    IF Cooldown(last_manual_update, force, now) # None
    THEN Rejected(force, Cooldown(last_manual_update, force, now)[1])
    ELSE \E r \in {update_all_data(Db, [indicators |-> fetch.indicators,
                                        stock |-> get_historical_data(fetch.stock, DemoBatch)],
                                   fault, "manual", now)} :
            Accepted(force, fetch, fault, r)

\* scheduler.py, scheduled_data_update: the job's run of update_all_data
scheduled_data_update(fetch, fault) ==
    /\ Invoked
    /\ \E r \in {update_all_data(Db, [indicators |-> fetch.indicators,
                                      stock |-> get_historical_data(fetch.stock, DemoBatch)],
                                 fault, "automatic", now)} :
          /\ Stored(r)
          /\ call' = [op |-> "scheduled_data_update", at |-> now,
                      fetch |-> fetch, fault |-> fault, update_type |-> "automatic",
                      status |-> r.status, results |-> r.results, raised |-> r.raised,
                      data_by_date |-> r.data_by_date]
    /\ UNCHANGED last_manual_update

\* what one run meets: every fetch on a healthy database, and the fetches
\* that bring stock rows on a failing one
RunInputs ==
    { [fetch |-> f, fault |-> x] : f \in RunFetches, x \in RunFaults } \
    { [fetch |-> f, fault |-> x] :
        f \in {g \in RunFetches : g.stock = None},
        x \in {y \in RunFaults : y.indicators # "none"} }

\* a manual trigger, with or without the override flag
ManualTrigger ==
    \E force \in BOOLEAN, in \in RunInputs : trigger_manual_update(force, in.fetch, in.fault)

\* the scheduler's job
ScheduledUpdate ==
    \E in \in RunInputs : scheduled_data_update(in.fetch, in.fault)

\* the same two, on a quiet day
QuietTrigger == \E force \in BOOLEAN : trigger_manual_update(force, QuietFetch, QuietFault)

QuietSchedule == scheduled_data_update(QuietFetch, QuietFault)

\* the instants, in half seconds, at which the clock is looked at: around
\* 5 s, 25 s and 30 s after the start, and the last instant of the model
Instants == {10, 11, 50, 58, 59, 60, 61, 62, 63, 64} \cap (0..MaxTime)

\* time passes up to the next instant
Tick ==
    /\ \E i \in Instants :
          /\ now < i
          /\ \A j \in Instants : now < j => i <= j
          /\ now' = i
    /\ UNCHANGED <<economic_indicators, stock_data, update_logs, last_manual_update, call, runs, sessions>>

\* the observations handed to calculate_cpi_yoy_change: n monthly ones of value
\* "100.00", the k-th of them (if any) replaced by one of another kind
SpecialObs(kind, date) ==
    CASE kind = "up" -> Obs(date, Str(11000))
      [] kind = "down" -> Obs(date, Str(9000))
      [] kind = "zero" -> Obs(date, Str(0))
      [] kind = "bad" -> Obs(date, BadStr)
      [] kind = "novalue" -> [date |-> date]
      [] kind = "nodate" -> [value |-> Str(11000)]

ObsKinds == {"up", "down", "zero", "bad", "novalue", "nodate"}

CpiSeriesOf(n, k, kind) ==
    [i \in 1..n |-> IF i = k THEN SpecialObs(kind, Month(i - 1)) ELSE Obs(Month(i - 1), Str(10000))]

CpiInputs == {CpiSeriesOf(n, k, kind) : n \in 0..MaxObs, k \in 0..MaxObs, kind \in ObsKinds}

\* the values handed to calculate_trend: None or a float, in hundredths
TrendValues == {None} \cup {Some(v) : v \in {-10000, -5000, 0, 1, 5000, 5050, 10000, 40000, 40001}}

\* the helpers are called with arguments of the caller's choice
InitPure ==
    /\ economic_indicators = EmptyBag
    /\ stock_data = EmptyBag
    /\ sessions = NoRuns
    /\ update_logs = <<>>
    /\ last_manual_update = None
    /\ now = 0
    /\ runs = 0
    /\ call \in {[op |-> "calculate_cpi_yoy_change", observations |-> o] : o \in CpiInputs}
               \cup {[op |-> "calculate_trend", current |-> c, previous |-> q] :
                        c \in TrendValues, q \in TrendValues}

CpiYoyCall ==
    /\ call.op = "calculate_cpi_yoy_change"
    /\ "ret" \notin DOMAIN call
    /\ call' = [op |-> call.op, observations |-> call.observations,
                ret |-> calculate_cpi_yoy_change(call.observations)]
    /\ UNCHANGED <<economic_indicators, stock_data, update_logs, last_manual_update, now, runs, sessions>>

TrendCall ==
    /\ call.op = "calculate_trend"
    /\ "ret" \notin DOMAIN call
    /\ call' = [op |-> call.op, current |-> call.current, previous |-> call.previous,
                ret |-> calculate_trend(call.current, call.previous)]
    /\ UNCHANGED <<economic_indicators, stock_data, update_logs, last_manual_update, now, runs, sessions>>

NextPure == CpiYoyCall \/ TrendCall

\* the adapter once constructed: _last_request_time = 0, on a clock that
\* reads more than the delay
InitAdapter ==
    /\ economic_indicators = EmptyBag
    /\ stock_data = EmptyBag
    /\ sessions = NoRuns
    /\ update_logs = <<>>
    /\ last_manual_update = None
    /\ runs = 0
    /\ now = rate_limit_delay * TicksPerSecond
    /\ call = [op |-> "AlphaVantageService", last_request_time |-> 0, previous |-> None]

\* a call of _make_request: the clock moves to the end of the request; the
\* call is recorded with the request before it
MakeRequest ==
    /\ \E ok \in BOOLEAN, dur \in Durations :
         \E r \in {make_request(call.last_request_time, now, ok, dur)} :
             /\ r.start + dur <= MaxClock
             /\ now' = r.start + dur
             /\ call' = [op |-> "_make_request", last_request_time |-> r.last_request_time,
                         start |-> r.start, ok |-> ok,
                         previous |-> IF call.op = "_make_request"
                                      THEN Some([start |-> call.start, ok |-> call.ok])
                                      ELSE None]
    /\ UNCHANGED <<economic_indicators, stock_data, update_logs, last_manual_update, runs, sessions>>

\* the adapter is left alone for a tick
Idle ==
    /\ now < MaxClock
    /\ now' = now + 1
    /\ UNCHANGED <<economic_indicators, stock_data, update_logs, last_manual_update, call, runs, sessions>>

NextAdapter == MakeRequest \/ Idle

\* the fetches of two runs that meet: federal-funds observations that share
\* the month of January 2024
RaceFetches ==
    { Fetched(<< Obs(Month(11), Str(533)), Obs(Month(12), Str(525)) >>, <<>>, <<>>, None, None),
      Fetched(<< Obs(Month(12), Str(550)), Obs(Month(13), Str(540)) >>, <<>>, <<>>, None, None) }

\* lines 37-113 for a fetch of which every entry parses: the accumulator
Accumulated(fetch) ==
    Reconcile(fetch.fed_rates, calculate_cpi_yoy_change(fetch.cpi_data).v, fetch.gdp_data,
              get_global_gdp_growth(fetch.wb_global).v,
              LatestGdpValue(get_global_gdp_growth(fetch.wb_global).v).v)

\* the least of a set of dates: data_by_date is gone through in the order
\* of insertion, which for one series is the order of its dates
Earliest(dates) == CHOOSE d \in dates : \A e \in dates : d <= e

\* a thread enters update_all_data and, in update_economic_indicators, has
\* built data_by_date; no date is looked up yet
Running(update_type, t, fetch) ==
    [pc |-> "indicators", update_type |-> update_type, started |-> t,
     data_by_date |-> Accumulated(fetch), todo |-> DOMAIN Accumulated(fetch),
     sess |-> NoSession]

\* lines 117-132 for one date, on the session of the thread: the record is
\* looked up among the committed ones and changed in memory, or a new one is
\* added to the session
LookedUp(run, table, date) ==
    [run EXCEPT
       !.todo = run.todo \ {date},
       !.sess = IF QueryFirst(table, date) # None
                THEN [run.sess EXCEPT !.dirty = Put(run.sess.dirty, QueryFirst(table, date)[1],
                                                    SetAttrs(QueryFirst(table, date)[1],
                                                             run.data_by_date[date], run.started))]
                ELSE [run.sess EXCEPT !.new = run.sess.new
                                               (+) SetToBag({NewIndicator(date, run.data_by_date[date],
                                                                          run.started)})]]

\* the UPDATE of a record the session changed: the columns whose value the
\* session changed are written to the record as it is stored now
Updated(cur, old, image) ==
    [k \in DOMAIN cur |-> IF image[k] # old[k] THEN image[k] ELSE cur[k]]

\* the table once the session is flushed beside another thread's commits
FlushedBeside(table, sess) ==
    LET touched == {r \in BagToSet(table) : \E old \in DOMAIN sess.dirty : old.date = r.date}
        OldOf(r) == CHOOSE old \in DOMAIN sess.dirty : old.date = r.date
    IN  (table (-) SetToBag(touched))
            (+) SetToBag({Updated(r, OldOf(r), sess.dirty[OldOf(r)]) : r \in touched})
            (+) sess.new

\* a commit whose INSERT replaces the record that holds the date
CommitSessionReplacing(table, sess) ==
    LET added == {r.date : r \in BagToSet(sess.new)}
        kept == {r \in BagToSet(table) : r.date \notin added}
    IN  Ok(FlushedBeside(SetToBag(kept), sess))

\* db.commit() on a healthy database shared with the other thread
CommitSession(table, sess) == Written(FlushedBeside(table, sess))

\* lines 136-143 on the session of the thread: the dict of the step
IndicatorsDone(run, done) ==
    [pc |-> "rest", update_type |-> run.update_type, started |-> run.started,
     data_by_date |-> run.data_by_date,
     ind |-> IF done.exc = "none"
             THEN [status |-> "success", count |-> Cardinality(DOMAIN run.data_by_date)]
             ELSE [status |-> "error", message |-> done.exc]]

\* POST /update while the event loop is free: rejected, or the run begins
ManualBegins ==
    /\ sessions["request"].pc = "idle"
    /\ \E force \in BOOLEAN, fetch \in RaceFetches :
          IF Cooldown(last_manual_update, force, now) # None
          THEN Rejected(force, Cooldown(last_manual_update, force, now)[1])
          ELSE /\ runs < MaxRuns
               /\ now < MaxTime
               /\ runs' = runs + 1
               /\ now' = now + 1
               /\ last_manual_update' = Some(now)
               /\ sessions' = [sessions EXCEPT !["request"] = Running("manual", now, fetch)]
               /\ UNCHANGED <<economic_indicators, stock_data, update_logs, call>>

\* the daily job fires in the scheduler's worker
JobBegins ==
    /\ sessions["scheduler"].pc = "idle"
    /\ runs < MaxRuns
    /\ now < MaxTime
    /\ runs' = runs + 1
    /\ now' = now + 1
    /\ \E fetch \in RaceFetches :
          sessions' = [sessions EXCEPT !["scheduler"] = Running("automatic", now, fetch)]
    /\ UNCHANGED <<economic_indicators, stock_data, update_logs, last_manual_update, call>>

\* a thread looks up the next date of its accumulator
Lookup(th) ==
    /\ sessions[th].pc = "indicators"
    /\ sessions[th].todo # {}
    /\ sessions' = [sessions EXCEPT ![th] = LookedUp(sessions[th], economic_indicators,
                                                     Earliest(sessions[th].todo))]
    /\ UNCHANGED <<economic_indicators, stock_data, update_logs, last_manual_update, now, call, runs>>

\* a thread commits its indicator batch, or rolls it back
CommitIndicators(th) ==
    /\ sessions[th].pc = "indicators"
    /\ sessions[th].todo = {}
    /\ \E done \in {CommitSession(economic_indicators, sessions[th].sess)} :
          /\ economic_indicators' = IF done.exc = "none" THEN done.v ELSE economic_indicators
          /\ sessions' = [sessions EXCEPT ![th] = IndicatorsDone(sessions[th], done)]
    /\ UNCHANGED <<stock_data, update_logs, last_manual_update, now, call, runs>>

\* the rest of the thread's run, taken as one step: the stock step, the log
\* entry and the return
Rest(th) ==
    /\ sessions[th].pc = "rest"
    /\ \E r \in {StepsDone(Db, QuietFault, sessions[th].update_type, sessions[th].started,
                            [table |-> economic_indicators, raised |-> "none",
                             ret |-> Some(sessions[th].ind),
                             data_by_date |-> sessions[th].data_by_date],
                            update_stock_data(stock_data, DemoBatch, "none", sessions[th].started))} :
          /\ Stored(r)
          /\ call' = [op |-> "update_all_data", thread |-> th, at |-> sessions[th].started,
                      update_type |-> sessions[th].update_type,
                      status |-> r.status, results |-> r.results, raised |-> r.raised]
    /\ sessions' = [sessions EXCEPT ![th] = NotRunning]
    /\ UNCHANGED <<last_manual_update, now, runs>>

NextInterleaved ==
    \/ ManualBegins
    \/ JobBegins
    \/ \E th \in Threads : Lookup(th)
    \/ \E th \in Threads : CommitIndicators(th)
    \/ \E th \in Threads : Rest(th)

NextRuns == ManualTrigger \/ ScheduledUpdate

NextDebounce == QuietTrigger \/ QuietSchedule \/ Tick

SpecIndicators == Init /\ [][IndicatorStep]_vars

SpecStock == Init /\ [][StockStep]_vars

SpecRuns == Init /\ [][NextRuns]_vars

SpecDebounce == Init /\ [][NextDebounce]_vars

SpecPure == InitPure /\ [][NextPure]_vars

SpecAdapter == InitAdapter /\ [][NextAdapter]_vars

SpecInterleaved == Init /\ [][NextInterleaved]_vars

----------------------------------------------------------------------------
(* Properties of a run of update_all_data (SpecRuns) *)

\* the last invocation ran update_all_data
IsRun == call.op \in {"trigger_manual_update", "scheduled_data_update"} /\ "status" \in DOMAIN call

\* a step failed: it raised (its result stayed None) or returned status 'error'
StepFailed(result) == result.t = "NoneType" \/ result.d.status = "error"

StepsFailed ==
    Cardinality({k \in {"economic_indicators", "stock_data"} : StepFailed(call.results[k])})

\* C1: the overall status of a run follows the outcomes of its two steps:
\* 'failed' when both steps failed, 'partial' when exactly one failed,
\* 'success' when neither failed, a step failing when it raises or returns
\* status 'error'.
C1_StatusFollowsSteps ==
    IsRun =>
        call.status = (IF StepsFailed = 2 THEN "failed"
                       ELSE IF StepsFailed = 1 THEN "partial"
                       ELSE "success")

\* C2: the status of a run is 'success' exactly when its errors list is
\* empty; with errors it is 'partial' when one of the two step results has
\* status 'success' and 'failed' otherwise; the errors list is no step result.
C2_StatusRule ==
    IsRun =>
        LET errors == call.results["errors"].l
            succeeded == \E k \in {"economic_indicators", "stock_data"} :
                            /\ call.results[k].t = "dict"
                            /\ call.results[k].d.status = "success"
        IN  /\ (call.status = "success") <=> (errors = <<>>)
            /\ errors # <<>> => call.status = (IF succeeded THEN "partial" ELSE "failed")

\* a run with a step that raised beside a step that succeeded
C2_Witness ==
    /\ IsRun
    /\ call.results["errors"].l # <<>>
    /\ call.status = "partial"

\* C5: after any sequence of runs, manual or automatic, the indicator table
\* and the stock table each hold at most one record per date.
C5_OneRecordPerDate ==
    \A table \in {economic_indicators, stock_data} :
        \A r \in BagToSet(table) :
            /\ CopiesIn(r, table) = 1
            /\ \A q \in BagToSet(table) : q.date = r.date => q = r

\* a run whose stock batch names one day twice and whose stock step failed,
\* on tables that hold records
C5_Witness ==
    /\ IsRun
    /\ call.fetch.stock # None
    /\ \E i, j \in DOMAIN call.fetch.stock[1] :
          i # j /\ call.fetch.stock[1][i].date = call.fetch.stock[1][j].date
    /\ StepFailed(call.results["stock_data"])
    /\ economic_indicators # EmptyBag
    /\ stock_data # EmptyBag

----------------------------------------------------------------------------
(* Properties of the indicator step (SpecIndicators) *)

IsIndicatorCall == call.op = "update_economic_indicators"

IndicatorSucceeded ==
    /\ IsIndicatorCall
    /\ call.ret # None
    /\ call.ret[1].status = "success"

\* a record without its modification timestamp
Values(row) == [k \in (DOMAIN row) \ {"updated_at"} |-> row[k]]

\* C3: an indicator step that repeats the fetch of the step before it (a step
\* the database did not fail) leaves the same record dates and the same value
\* in every indicator field as that step left; only updated_at may differ,
\* and no record is duplicated.
C3_Idempotent ==
    (IsIndicatorCall /\ call.repeat) =>
        /\ {Values(row) : row \in BagToSet(economic_indicators)}
              = {Values(row) : row \in BagToSet(call.before)}
        /\ BagCardinality(economic_indicators) = BagCardinality(call.before)

\* a second step, repeating the first one's fetch, has written its records
\* anew
C3_Witness ==
    /\ IndicatorSucceeded
    /\ call.repeat
    /\ call.before # EmptyBag
    /\ economic_indicators # call.before

\* the set of the points of an adapter's answer
PointSet(answer) ==
    IF answer.exc = "none" THEN {answer.v[i] : i \in DOMAIN answer.v} ELSE {}

\* the annual points the indicator step works on
GlobalPoints ==
    IF IsIndicatorCall THEN PointSet(get_global_gdp_growth(call.fetch.wb_global)) ELSE {}

\* the points of the five greatest years
LastFive(points) == {p \in points : Cardinality({q \in points : q.year > p.year}) < 5}

\* C4: when global-GDP points are fetched, every accumulated date that is
\* not 31 December of one of the last five points' years carries the value of
\* the point with the greatest year as its global_gdp_growth, and every 31
\* December of such a year carries that year's own value.
C4_ForwardFill ==
    \A points \in {GlobalPoints} :
        points # {} =>
            \A five \in {LastFive(points)} :
                \A date \in DOMAIN call.data_by_date :
                    /\ "global_gdp_growth" \in DOMAIN call.data_by_date[date]
                    /\ \E p \in points :
                          /\ call.data_by_date[date]["global_gdp_growth"] = p.value.n
                          /\ IF \E q \in five : date = MkDate(q.year, 12, 31)
                             THEN date = MkDate(p.year, 12, 31)
                             ELSE \A q \in points : q.year <= p.year

\* six annual points beside observations dated 31 December 2018 and 2023: the
\* first date, whose year is not among the last five, is filled with the
\* latest value and an exact annual date keeps another value
C4_Witness ==
    /\ IndicatorSucceeded
    /\ Cardinality(GlobalPoints) > 5
    /\ 20181231 \in DOMAIN call.data_by_date
    /\ 20221231 \in DOMAIN call.data_by_date
    /\ call.data_by_date[20181231]["global_gdp_growth"]
          # call.data_by_date[20221231]["global_gdp_growth"]

\* the record of the table before the call that carries the date
Previous(date) == {old \in BagToSet(call.before) : old.date = date}

\* C6: an indicator upsert writes only the fields named in the run's field
\* map for the date: on an existing record every other indicator field keeps
\* its value and no populated field becomes null; on a new record every field
\* not named is null; records of other dates are as they were.
C6_OnlyNamedFields ==
    IndicatorSucceeded =>
        \A row \in BagToSet(economic_indicators) :
            IF row.date \in DOMAIN call.data_by_date
            THEN \A f \in IndicatorFields :
                    /\ f \in DOMAIN call.data_by_date[row.date]
                          => row[f] = Some(call.data_by_date[row.date][f])
                    /\ f \notin DOMAIN call.data_by_date[row.date]
                          => /\ \A old \in Previous(row.date) : row[f] = old[f]
                             /\ Previous(row.date) = {} => row[f] = None
                    /\ \A old \in Previous(row.date) : old[f] # None => row[f] # None
            ELSE row \in BagToSet(call.before)

\* an existing record with a populated field that the run's field map does
\* not name, written by a run that names another of its fields
C6_Witness ==
    /\ IndicatorSucceeded
    /\ \E row \in BagToSet(economic_indicators) :
          /\ row.date \in DOMAIN call.data_by_date
          /\ \E old \in Previous(row.date) :
                \E f, g \in IndicatorFields :
                    /\ f \notin DOMAIN call.data_by_date[row.date]
                    /\ old[f] # None
                    /\ g \in DOMAIN call.data_by_date[row.date]
                    /\ old[g] # row[g]

\* no CPI level of the fetch is zero (a zero level twelve months back is a
\* parseable value)
NoZeroLevel ==
    \A i \in DOMAIN call.fetch.cpi_data :
        float(call.fetch.cpi_data[i].value).exc # "none" \/ float(call.fetch.cpi_data[i].value).v # 0

\* C8: whatever the fetched batches hold, entries whose date or value cannot
\* be parsed are skipped: on a healthy database the indicator step returns
\* status 'success' and every valid federal-funds entry of the window has its
\* record.
C8_MalformedSkipped ==
    (IsIndicatorCall /\ call.fault = "none" /\ NoZeroLevel) =>
        /\ IndicatorSucceeded
        /\ \A i \in DOMAIN LastN(call.fetch.fed_rates, FedWindow) :
              Parses(LastN(call.fetch.fed_rates, FedWindow)[i]) =>
                 \E row \in BagToSet(economic_indicators) :
                     row.date = strptime(LastN(call.fetch.fed_rates, FedWindow)[i].date).v

----------------------------------------------------------------------------
(* Properties of the stock step (SpecStock) *)

IsStockCall == call.op = "update_stock_data"

Complete(item) == {"date", "open", "high", "low", "close", "volume"} \subseteq DOMAIN item

\* the rows of the batch that the claim does not call skipped: complete, and
\* dated with a date of the calendar
Kept == {i \in DOMAIN call.items :
            Complete(call.items[i]) /\ strptime(call.items[i].date).exc = "none"}

\* C9: on a healthy database the stock step skips the rows that lack the
\* date or an OHLCV field, upserts every other row, commits and returns
\* status 'success' with the number of rows not skipped as its count; the
\* record of a date then holds the values of the last such row for it.
C9_IncompleteRowsSkipped ==
    (IsStockCall /\ call.fault = "none") =>
        /\ call.ret # None
        /\ call.ret[1] = [status |-> "success", count |-> Cardinality(Kept)]
        /\ \A i \in Kept :
              (\A j \in Kept : call.items[j].date = call.items[i].date => j <= i) =>
                 \E row \in BagToSet(stock_data) :
                    /\ row.date = strptime(call.items[i].date).v
                    /\ row.open_price = call.items[i].open
                    /\ row.high_price = call.items[i].high
                    /\ row.low_price = call.items[i].low
                    /\ row.close_price = call.items[i].close
                    /\ row.volume = call.items[i].volume

----------------------------------------------------------------------------
(* Properties of the manual trigger (SpecDebounce) *)

\* the step is a manual trigger without the override flag
PlainTriggerStep ==
    /\ call'.op = "trigger_manual_update"
    /\ ~call'.force
    /\ (call' # call \/ runs' # runs)

\* the log entries of the manual runs so far, one per accepted manual trigger
ManualEntries == {i \in DOMAIN update_logs : update_logs[i].update_type = "manual"}

\* the time of the previous accepted manual trigger
PreviousAccepted ==
    update_logs[CHOOSE i \in ManualEntries : \A j \in ManualEntries : j <= i].timestamp

\* C10: a manual trigger without the override flag that arrives e whole
\* seconds after the previous accepted manual trigger is rejected with a wait
\* hint of 30 - e seconds when e < 30 and accepted when e >= 30; the first
\* manual trigger is always accepted.
C10_Debounce ==
    [][PlainTriggerStep =>
          IF ManualEntries = {} THEN call'.http # 429
          ELSE (call'.at - PreviousAccepted) % TicksPerSecond = 0 =>
                  IF (call'.at - PreviousAccepted) \div TicksPerSecond < 30
                  THEN /\ call'.http = 429
                       /\ call'.wait = 30 - (call'.at - PreviousAccepted) \div TicksPerSecond
                  ELSE call'.http # 429]_vars

\* a trigger rejected five seconds after the accepted one, told to wait 25
C10_Witness ==
    /\ call.op = "trigger_manual_update"
    /\ call.http = 429
    /\ ~call.force
    /\ call.at - last_manual_update[1] = 5 * TicksPerSecond
    /\ call.wait = 25

----------------------------------------------------------------------------
(* Properties of the helpers (SpecPure) *)

CpiReturned == call.op = "calculate_cpi_yoy_change" /\ "ret" \in DOMAIN call

HasKeys(observations) ==
    \A i \in DOMAIN observations : DOMAIN observations[i] = {"date", "value"}

Parseable(observations) ==
    /\ HasKeys(observations)
    /\ \A i \in DOMAIN observations : observations[i].value.ok

NonZero(observations) ==
    \A i \in DOMAIN observations : observations[i].value.n # 0

Abs(x) == IF x < 0 THEN -x ELSE x

\* v, in hundredths, is a nearest two-decimal value of num / den * 100
NearestPct(v, num, den) == 2 * Abs(v * den - num * 10000) <= Abs(den)

\* C11: on n observations whose values parse and are not zero,
\* calculate_cpi_yoy_change returns the empty sequence when n < 13 and else
\* n - 12 points, the k-th with the date of obs[12+k] and the value
\* (obs[12+k] - obs[k]) / obs[k] * 100 rounded to two decimals
C11_YoyPoints ==
    CpiReturned /\ Parseable(call.observations) /\ NonZero(call.observations) =>
        /\ call.ret.exc = "none"
        /\ Len(call.observations) < YoyLag + 1 => call.ret.v = <<>>
        /\ Len(call.observations) >= YoyLag + 1 =>
              /\ Len(call.ret.v) = Len(call.observations) - YoyLag
              /\ \A k \in 1..Len(call.ret.v) :
                    /\ call.ret.v[k].date = call.observations[YoyLag + k].date
                    /\ call.ret.v[k].value.t = "float"
                    /\ NearestPct(call.ret.v[k].value.n,
                                  call.observations[YoyLag + k].value.n - call.observations[k].value.n,
                                  call.observations[k].value.n)

\* twelve observations of 100 and a thirteenth of 110 give one point of 10.0
C11_Witness ==
    /\ CpiReturned
    /\ call.observations = CpiSeriesOf(YoyLag + 1, YoyLag + 1, "up")
    /\ call.ret = Ok(<< [date |-> <<2024, 1, 1>>, value |-> Flt(1000)] >>)

\* the places of the observations that have a point to give: those past the
\* twelfth whose year-earlier value is not zero
WithBaseline(observations) ==
    {i \in DOMAIN observations : i > YoyLag /\ observations[i - YoyLag].value.n # 0}

\* C12: a year-earlier value of zero costs only its own point: no exception
\* is raised and every other point is still emitted
C12_ZeroBaselineSkipped ==
    CpiReturned /\ Parseable(call.observations) =>
        /\ call.ret.exc = "none"
        /\ {call.ret.v[k].date : k \in DOMAIN call.ret.v}
             = {call.observations[i].date : i \in WithBaseline(call.observations)}

TrendReturned == call.op = "calculate_trend" /\ "ret" \in DOMAIN call

\* C13: calculate_trend returns a null trend and 'neutral' when current is
\* absent, previous is absent or previous is zero, and a trend that is not
\* null in every other case
C13_NullTrend ==
    TrendReturned =>
        IF call.current = None \/ call.previous = None \/ call.previous = Some(0)
        THEN call.ret = [trend |-> None, trend_direction |-> "neutral"]
        ELSE call.ret.trend # None

\* trend(current = 50, previous = 0)
C13_Witness ==
    /\ TrendReturned
    /\ call.current = Some(5000)
    /\ call.previous = Some(0)
    /\ call.ret = [trend |-> None, trend_direction |-> "neutral"]

\* C14: the direction agrees with the sign of the rounded trend returned
C14_DirectionOfRounded ==
    TrendReturned /\ call.ret.trend # None =>
        /\ call.ret.trend_direction = "up" <=> call.ret.trend[1].n > 0
        /\ call.ret.trend_direction = "down" <=> call.ret.trend[1].n < 0
        /\ call.ret.trend_direction = "neutral" <=> call.ret.trend[1].n = 0

----------------------------------------------------------------------------
(* Properties of the bookkeeping of a run (SpecRuns) *)

Label(k) == IF k = "economic_indicators" THEN "Economic indicators" ELSE "Stock data"

Recorded(k) == \E i \in DOMAIN call.results["errors"].l : call.results["errors"].l[i] = Label(k)

\* C15: in every run the stock step is invoked whatever the outcome of the
\* indicator step, and the failure of either step is recorded in the errors
\* list of the run under the label of its source
C15_FailuresRecorded ==
    IsRun =>
        /\ call.results["stock_data"].t = "dict" \/ Recorded("stock_data")
        /\ \A k \in {"economic_indicators", "stock_data"} :
              StepFailed(call.results[k]) => Recorded(k)

\* a step of the model that runs update_all_data
RunStep == runs' # runs

Table(k) == IF k = "economic_indicators" THEN economic_indicators ELSE stock_data

StepFault(k) == IF k = "economic_indicators" THEN call.fault.indicators ELSE call.fault.stock

----------------------------------------------------------------------------
(* Properties of empty answers (SpecStock) *)

----------------------------------------------------------------------------
(* Properties of a rejected trigger (SpecDebounce) *)

\* C20: a manual trigger rejected by the debounce is answered with 429, not
\* with the 500 of a failed update, and has no other effect: no record of
\* either table changes and no log entry is written; nothing is queued, the
\* tables and the log change only in the step of an accepted trigger or of
\* the scheduler's job
C20_RejectedHasNoEffect ==
    [][/\ call'.op = "trigger_manual_update" /\ call'.http = 429 =>
             UNCHANGED <<economic_indicators, stock_data, update_logs, last_manual_update, runs>>
       /\ <<economic_indicators, stock_data, update_logs>>' # <<economic_indicators, stock_data, update_logs>> =>
             /\ RunStep
             /\ call'.at = now
             /\ call'.op = "trigger_manual_update" => call'.http \in {200, 500}]_vars

\* a trigger rejected after one run, whose log entry stands alone
C20_Witness ==
    /\ call.op = "trigger_manual_update"
    /\ call.http = 429
    /\ runs = 1
    /\ Len(update_logs) = 1

----------------------------------------------------------------------------
(* Properties of the accumulator of the indicator step (SpecIndicators) *)

\* C21 as stated: every date row the step emits carries a global_gdp_growth
\* value, whatever the fetched series, a global-GDP fetch without points
\* included
C21_EveryRowCarriesGdp ==
    IsIndicatorCall =>
        \A date \in DOMAIN call.data_by_date :
            "global_gdp_growth" \in DOMAIN call.data_by_date[date]

\* C21, amended: the date rows the step emits carry a global_gdp_growth value
\* exactly when the global-GDP fetch returned at least one point; when it
\* returned none, no row carries one
C21_RowsCarryGdpOfPoints ==
    \A points \in {GlobalPoints} :
        IsIndicatorCall =>
            \A date \in DOMAIN call.data_by_date :
                "global_gdp_growth" \in DOMAIN call.data_by_date[date] <=> points # {}

\* a quarter's row that no federal-funds observation dates, filled from the
\* annual points
C21_Witness ==
    /\ IndicatorSucceeded
    /\ GlobalPoints # {}
    /\ \E date \in DOMAIN call.data_by_date :
          DOMAIN call.data_by_date[date] = {"us_gdp_growth", "global_gdp_growth"}

----------------------------------------------------------------------------
(* Properties of the stock upsert (SpecStock) *)

StockSucceeded ==
    /\ IsStockCall
    /\ call.ret # None
    /\ call.ret[1].status = "success"

\* the rows of the batch that name a date of the calendar
Dated == {i \in DOMAIN call.items :
            "date" \in DOMAIN call.items[i] /\ strptime(call.items[i].date).exc = "none"}

DateOfItem(i) == strptime(call.items[i].date).v

\* the record the table held for the date before the call
StoredBefore(date) == {old \in BagToSet(call.before) : old.date = date}

StoredNow(date) == {row \in BagToSet(stock_data) : row.date = date}

SixFields == {"open_price", "close_price", "high_price", "low_price", "volume", "market_cap"}

C29_LaterRowWins ==
    (IsStockCall /\ call.fault = "none") =>
        \A i, j \in Kept :
            (/\ i < j
             /\ DateOfItem(i) = DateOfItem(j)
             /\ StoredBefore(DateOfItem(i)) = {}
             /\ \A k \in Dated : DateOfItem(k) = DateOfItem(j) => k <= j) =>
                /\ StockSucceeded
                /\ Cardinality(StoredNow(DateOfItem(j))) = 1
                /\ \A row \in StoredNow(DateOfItem(j)) :
                      /\ row.open_price = call.items[j].open
                      /\ row.close_price = call.items[j].close
                      /\ row.high_price = call.items[j].high
                      /\ row.low_price = call.items[j].low
                      /\ row.volume = call.items[j].volume

----------------------------------------------------------------------------
(* Properties of the windows of the indicator step (SpecIndicators) *)

\* the places of the last n entries of a series
InWindow(series, n) == {i \in DOMAIN series : i > Len(series) - n}

\* an observation of the window dates the row and gives the value
FromWindow(series, n, date, value) ==
    \E i \in InWindow(series, n) :
        /\ Parses(series[i])
        /\ strptime(series[i].date).v = date
        /\ float(series[i].value).v = value

\* an annual point of the window dates the row and gives the value
FromAnnualWindow(points, n, date, value) ==
    \E i \in InWindow(points, n) :
        /\ MkDate(points[i].year, 12, 31) = date
        /\ points[i].value.n = value

\* the value is that of a point of the greatest year, of all the points
LatestOfAll(points, value) ==
    \E i \in DOMAIN points :
        /\ points[i].value.n = value
        /\ \A j \in DOMAIN points : points[j].year <= points[i].year

SeqOf(answer) == IF answer.exc = "none" THEN answer.v ELSE <<>>

OwnValue(row, field, series, n, date) ==
    field \in DOMAIN row => FromWindow(series, n, date, row[field])

\* C23: in one indicator run a dated field is set only from the last 12
\* federal-funds observations, the last 12 yearly inflation points, the last
\* 8 quarterly GDP observations and the last 5 annual points, and every date
\* row is dated by one of them; an observation before its window creates
\* no row and sets no value; the filled value alone is taken over all the
\* annual points
C23_Windows ==
    IsIndicatorCall =>
        \A inflation \in {SeqOf(calculate_cpi_yoy_change(call.fetch.cpi_data))} :
        \A global \in {SeqOf(get_global_gdp_growth(call.fetch.wb_global))} :
        \A date \in DOMAIN call.data_by_date :
        \A row \in {call.data_by_date[date]} :
            /\ OwnValue(row, "federal_funds_rate", call.fetch.fed_rates, FedWindow, date)
            /\ OwnValue(row, "inflation_rate", inflation, InflationWindow, date)
            /\ OwnValue(row, "us_gdp_growth", call.fetch.gdp_data, GdpWindow, date)
            /\ "global_gdp_growth" \in DOMAIN row =>
                  \/ FromAnnualWindow(global, GlobalGdpWindow, date, row["global_gdp_growth"])
                  \/ LatestOfAll(global, row["global_gdp_growth"])
            /\ \/ "federal_funds_rate" \in DOMAIN row
               \/ "inflation_rate" \in DOMAIN row
               \/ "us_gdp_growth" \in DOMAIN row
               \/ \E v \in {row["global_gdp_growth"]} :
                     FromAnnualWindow(global, GlobalGdpWindow, date, v)

\* thirteen yearly changes fetched: the first, of January 2024, has no row,
\* the twelve after it have theirs
C23_Witness ==
    /\ IndicatorSucceeded
    /\ call.fetch.cpi_data = TwentyFiveMonths
    /\ Cardinality(DOMAIN call.data_by_date) = InflationWindow
    /\ 20240101 \notin DOMAIN call.data_by_date
    /\ 20240201 \in DOMAIN call.data_by_date

----------------------------------------------------------------------------
(* Properties of the stock-price adapter (SpecAdapter) *)

\* C24: two consecutive requests of _make_request start at least 12 seconds
\* apart, whether the earlier one succeeded or failed
C24_RequestsApart ==
    (call.op = "_make_request" /\ call.previous # None) =>
        call.start - call.previous[1].start >= 12 * TicksPerSecond

----------------------------------------------------------------------------
(* Properties of runs in two threads (SpecInterleaved) *)

\* C25: no two invocations of update_all_data are in progress at once
C25_NoOverlap ==
    ~(sessions["request"].pc # "idle" /\ sessions["scheduler"].pc # "idle")

\* the dates for which the thread's session holds a record to insert
Staged(th) == {r.date : r \in BagToSet(sessions[th].sess.new)}

\* the thread's step commits or rolls back its indicator batch
Commits(th) == sessions[th].pc = "indicators" /\ sessions'[th].pc = "rest"

\* C26: two runs, each with its session, have both looked up a date without
\* record before either commits.  The commit of the second is refused: its
\* whole batch is rolled back, its indicator step reports status 'error',
\* and the table holds one record for the date, the one of the first; at
\* all times a date has one record at most
C26_OneRecordOneError ==
    [][/\ \A th \in Threads :
             (Commits(th) /\ \E row \in BagToSet(economic_indicators) : row.date \in Staged(th)) =>
                 /\ economic_indicators' = economic_indicators
                 /\ sessions'[th].ind.status = "error"
       /\ \A row \in BagToSet(economic_indicators') :
             /\ CopiesIn(row, economic_indicators') = 1
             /\ \A other \in BagToSet(economic_indicators') : other.date = row.date => other = row]_vars

\* a run refused after the other thread's commit: the date of January 2024
\* has the other's record and the run's own other date has none
C26_Witness ==
    \E th \in Threads :
        /\ sessions[th].pc = "rest"
        /\ sessions[th].ind = [status |-> "error", message |-> "IntegrityError"]
        /\ \E row \in BagToSet(economic_indicators) :
              /\ row.date \in DOMAIN sessions[th].data_by_date
              /\ row.updated_at # sessions[th].started
        /\ \E date \in DOMAIN sessions[th].data_by_date :
              \A row \in BagToSet(economic_indicators) : row.date # date

----------------------------------------------------------------------------
(* Properties of the debounce timestamp and of a run's two steps (SpecRuns) *)

\* the step is a manual trigger
TriggerStep ==
    /\ call'.op = "trigger_manual_update"
    /\ (call' # call \/ runs' # runs)

\* C27: the debounce timestamp is the start time of the latest accepted
\* manual trigger, forced or not, its update successful or not; a trigger
\* with the override flag is always accepted; a rejected trigger and an
\* automatic run leave the timestamp alone
C27_DebounceTimestamp ==
    [][/\ TriggerStep /\ call'.force => call'.http # 429
       /\ TriggerStep /\ call'.http # 429 =>
             /\ call'.at = now
             /\ last_manual_update' = Some(now)
       /\ ~(TriggerStep /\ call'.http # 429) => last_manual_update' = last_manual_update]_vars

\* a second accepted trigger, forced, whose update raised: the timestamp is
\* its start time
C27_Witness ==
    /\ call.op = "trigger_manual_update"
    /\ call.force
    /\ call.http = 500
    /\ runs = 2
    /\ last_manual_update = Some(call.at)

\* the record of the date holds the values the run accumulated for it
Holds(row, values, t) ==
    /\ row.updated_at = t
    /\ \A f \in DOMAIN values : row[f] = Some(values[f])

====
